---------------------------- MODULE Spec2Model ----------------------------
(***************************************************************************)
(* The two profile widgets of the site: ExpertResearchGrants (research     *)
(* grants, UiTM Expert) and ScholarPublications (publications, Google      *)
(* Scholar).  Each fetches a profile page through a CORS proxy, extracts   *)
(* records from the markup, falls back to a hardcoded dataset and renders  *)
(* into a modal.                                                           *)
(*                                                                         *)
(* A JavaScript string is a sequence of one-character strings, so that     *)
(* trim, split, substring, toLowerCase and includes are computed and not   *)
(* assumed.  A parsed document is what querySelectorAll answers for each   *)
(* of the configured selectors, in document order.  The two widgets share  *)
(* no state; a behaviour follows one of them, chosen in Init.              *)
(***************************************************************************)
EXTENDS Integers, Sequences, FiniteSets, TLC

VARIABLES
    widget,      \* which class this instance is: "grants" or "publications"
    records,     \* this.researchGrants / this.publications
    isLoading,   \* this.isLoading
    pc,          \* per init() invocation: where its async body stands
    hasTextArea, \* whether the modal's 'p.mb-5.text-left' container exists
    textArea,    \* what the container shows (its innerHTML, by structure)
    last         \* history: how the latest finished fetch ended, and on what

vars == <<widget, records, isLoading, pc, hasTextArea, textArea, last>>

---------------------------------------------------------------------------
(* JavaScript's String methods, on sequences of characters.                *)

Min(S) == CHOOSE x \in S : \A y \in S : x <= y
Max(S) == CHOOSE x \in S : \A y \in S : x >= y

\* The characters String.prototype.trim strips (those the inputs use).
WhiteSpace == {" ", "\n", "\t", "\r"}

UpperCase ==
    <<"A","B","C","D","E","F","G","H","I","J","K","L","M",
      "N","O","P","Q","R","S","T","U","V","W","X","Y","Z">>
LowerCase ==
    <<"a","b","c","d","e","f","g","h","i","j","k","l","m",
      "n","o","p","q","r","s","t","u","v","w","x","y","z">>

LowerOf ==
    [c \in {UpperCase[i] : i \in 1..Len(UpperCase)} |->
        LowerCase[CHOOSE i \in 1..Len(UpperCase) : UpperCase[i] = c]]

toLowerCaseChar(c) == IF c \in DOMAIN LowerOf THEN LowerOf[c] ELSE c

toLowerCase(s) == [i \in 1..Len(s) |-> toLowerCaseChar(s[i])]

\* s.includes(k): k occurs in s as a contiguous substring.
includes(s, k) ==
    \E i \in 1..(Len(s) - Len(k) + 1) : \A j \in 1..Len(k) : s[i + j - 1] = k[j]

trim(s) ==
    LET idx == {i \in 1..Len(s) : s[i] \notin WhiteSpace}
    IN  IF idx = {} THEN << >> ELSE SubSeq(s, Min(idx), Max(idx))

\* s.substring(0, n)
substring(s, n) == SubSeq(s, 1, IF n < Len(s) THEN n ELSE Len(s))

\* s.split(sep) for a one-character separator: always at least one piece.
split(s, sep) ==
    LET breaks == {i \in 1..Len(s) : s[i] = sep}
        nth(k) == CHOOSE b \in breaks : Cardinality({x \in breaks : x < b}) = k - 1
        from(k) == IF k = 1 THEN 1 ELSE nth(k - 1) + 1
        to(k) == IF k = Cardinality(breaks) + 1 THEN Len(s) ELSE nth(k) - 1
    IN  [k \in 1..(Cardinality(breaks) + 1) |-> SubSeq(s, from(k), to(k))]

---------------------------------------------------------------------------
(* Literal data of the two classes.                                        *)

\* The marker appended to a cut title.
Ellipsis == <<".", ".", ".">>

\* The title lengths at which extractTitle / parsePublications cut.
GrantTitleLimit == 100
PubTitleLimit == 150
\* parseResearchGrants keeps a text only when it is longer than this.
MinTextLength == 10
\* parsePublications falls back when fewer records than this were produced.
MinPublications == 5

\* isResearchGrantText's keyword list (part_000:103-112), in array order.
researchKeywords ==
    << <<"g","r","a","n","t">>,
       <<"r","e","s","e","a","r","c","h">>,
       <<"p","r","o","j","e","c","t">>,
       <<"f","u","n","d","i","n","g">>,
       <<"F","R","G","S">>,
       <<"R","A","C","E","R">>,
       <<"L","E","S","T","A","R","I">>,
       <<"K","P","M">>,
       <<"U","i","T","M">>,
       <<"f","u","n","d","a","m","e","n","t","a","l">>,
       <<"s","p","e","c","i","a","l">>,
       <<"a","u","t","o","n","o","m","o","u","s">>,
       <<"a","n","o","m","a","l","y">>,
       <<"d","e","t","e","c","t","i","o","n">>,
       <<"s","t","r","e","a","m","i","n","g">>,
       <<"d","a","t","a">>,
       <<"e","-","c","o","m","m","e","r","c","e">>,
       <<"r","u","r","a","l">>,
       <<"p","r","o","d","u","c","t","s">>,
       <<"c","o","m","m","e","r","c","i","a","l","i","z","a","t","i","o","n">>,
       <<"a","u","t","i","s","m">>,
       <<"j","o","u","r","n","e","y">>,
       <<"d","i","r","e","c","t","o","r","y">>,
       <<"r","e","p","o","s","i","t","o","r","y">>,
       <<"s","m","a","r","t">>,
       <<"u","r","b","a","n">>,
       <<"f","a","r","m","i","n","g">>,
       <<"i","o","t">>,
       <<"d","o","w","n","t","i","m","e">>,
       <<"a","n","a","l","y","s","i","s">>,
       <<"d","a","t","a"," ","c","e","n","t","r","e">>,
       <<"h","i","g","h"," ","a","v","a","i","l","a","b","i","l","i","t","y">>,
       <<"s","o","f","t","w","a","r","e">>,
       <<"a","p","p","l","i","c","a","t","i","o","n">>,
       <<"s","e","r","v","i","c","e","s">>,
       <<"f","o","g"," ","d","e","v","i","c","e","s">>,
       <<"r","a","d","a","r">>,
       <<"r","e","f","l","e","c","t","i","v","i","t","y">>,
       <<"i","m","a","g","e","s">>,
       <<"c","o","n","v","e","c","t","i","v","e">>,
       <<"s","t","r","a","t","i","f","o","r","m">>,
       <<"t","r","o","p","i","c","a","l">>,
       <<"r","a","i","n","f","a","l","l">>,
       <<"e","s","t","i","m","a","t","e","s">> >>

\* loadFallbackResearchGrants' array literal (part_000:162-212).
FallbackResearchGrants ==
    << [id |-> 1, type |-> "RACER", status |-> "Completed",
        title |->
          <<"A","u","t","o","n","o","m","o","u","s"," ","A","n","o","m","a","l","y"," ","D","e",
          "t","e","c","t","i","o","n"," ","i","n"," ","S","t","r","e","a","m","i","n","g"," ",
          "D","a","t","a">>,
        details |->
          <<"K","P","M",","," ","A","u","t","o","n","o","m","o","u","s"," ","A","n","o","m","a",
          "l","y"," ","D","e","t","e","c","t","i","o","n"," ","i","n"," ","S","t","r","e","a",
          "m","i","n","g"," ","D","a","t","a",","," ","(","R","e","f",":"," ","R","A","C","E",
          "R","/","1","/","2","0","1","9","/","I","C","T","0","2","/","U","I","T","M","/","/",
          "4",")",","," ","R","o","l","e",":"," ","T","e","a","m"," ","M","e","m","b","e","r",
          ".">>],
       [id |-> 2, type |-> "LESTARI", status |-> "Completed",
        title |->
          <<"W","e","b"," ","B","a","s","e","d"," ","E"," ","C","o","m","m","e","r","c","e"," ",
          "S","y","s","t","e","m"," ","F","o","r"," ","R","u","r","a","l"," ","P","r","o","d",
          "u","c","t","s"," ","C","o","m","m","e","r","c","i","a","l","i","z","a","t","i","o",
          "n"," ","I","n"," ","P","u","l","a","u"," ","T","u","b","a"," ","L","a","n","g","k",
          "a","w","i">>,
        details |->
          <<"U","i","T","M"," ","L","E","S","T","A","R","I"," ","S","D","G","@","U","i","T","M",
          " ","G","r","a","n","t",","," ","W","e","b"," ","B","a","s","e","d"," ","E"," ","C",
          "o","m","m","e","r","c","e"," ","S","y","s","t","e","m"," ","F","o","r"," ","R","u",
          "r","a","l"," ","P","r","o","d","u","c","t","s"," ","C","o","m","m","e","r","c","i",
          "a","l","i","z","a","t","i","o","n"," ","I","n"," ","P","u","l","a","u"," ","T","u",
          "b","a"," ","L","a","n","g","k","a","w","i",","," ","6","0","0","-","R","M","C","/",
          "L","E","S","T","A","R","I"," ","S","D","G","-","T"," ","5","/","3"," ","(","1","4",
          "2","/","2","0","1","9",")",","," ","R","o","l","e",":"," ","T","e","a","m"," ","M",
          "e","m","b","e","r",".">>],
       [id |-> 3, type |-> "NASOM", status |-> "Completed",
        title |->
          <<"A","U","T","I","S","M"," ","J","O","U","R","N","E","Y"," ","D","I","R","E","C","T",
          "O","R","Y"," ","&"," ","D","A","T","A"," ","R","E","P","O","S","I","T","O","R","Y",
          " ","S","Y","S","T","E","M">>,
        details |->
          <<"N","A","S","O","M",","," ","A","U","T","I","S","M"," ","J","O","U","R","N","E","Y",
          " ","D","I","R","E","C","T","O","R","Y"," ","&"," ","D","A","T","A"," ","R","E","P",
          "O","S","I","T","O","R","Y"," ","S","Y","S","T","E","M",","," ","R","o","l","e",":",
          " ","T","e","a","m"," ","M","e","m","b","e","r",".">>],
       [id |-> 4, type |-> "Other Grants", status |-> "Completed",
        title |->
          <<"P","o","r","t","a","b","l","e"," ","I","o","t","-","b","a","s","e","d"," ","S","m",
          "a","r","t"," ","U","r","b","a","n"," ","F","a","r","m","i","n","g",":"," ","T","e",
          "c","h","n","o","l","o","g","y"," ","U","s","e"," ","C","a","s","e"," ","O","f"," ",
          "U","i","t","m"," ","A","n","d"," ","U","n","i","k","o","m"," ","B","a","n","d","u",
          "n","g">>,
        details |->
          <<"T","i","t","l","e"," ",":"," ","P","o","r","t","a","b","l","e"," ","I","o","t","-",
          "b","a","s","e","d"," ","S","m","a","r","t"," ","U","r","b","a","n"," ","F","a","r",
          "m","i","n","g",":"," ","T","e","c","h","n","o","l","o","g","y"," ","U","s","e"," ",
          "C","a","s","e"," ","O","f"," ","U","i","t","m"," ","A","n","d"," ","U","n","i","k",
          "o","m"," ","B","a","n","d","u","n","g","."," ","D","r","."," ","M","u","h","a","m",
          "m","a","d"," ","I","z","z","a","d"," ","B","i","n"," ","R","a","m","l","i",","," ",
          "P","r","o","f","e","s","o","r"," ","D","r"," ","N","u","r","s","u","r","i","a","t",
          "i"," ","B","i","n","t","i"," ","J","a","m","i","l",","," ","T","s","."," ","M","u",
          "h","a","m","m","a","d"," ","A","z","i","z","i"," ","B","i","n"," ","M","o","h","d",
          " ","A","r","i","f","f","i","n",","," ","2","0","2","1"," ","-"," ","2","0","2","2",
          ","," ","O","t","h","e","r"," ","G","r","a","n","t","s",","," ","P","r","o","j","e",
          "c","t"," ","M","e","m","b","e","r",","," ","R","M"," ","5",",","0","0","0",".","0",
          "0">>],
       [id |-> 5, type |-> "GPK", status |-> "Completed",
        title |->
          <<"D","o","w","n","t","i","m","e"," ","A","n","a","l","y","s","i","s"," ","F","o","r",
          " ","U","i","t","m"," ","D","a","t","a"," ","C","e","n","t","r","e">>,
        details |->
          <<"T","i","t","l","e"," ",":"," ","D","o","w","n","t","i","m","e"," ","A","n","a","l",
          "y","s","i","s"," ","F","o","r"," ","U","i","t","m"," ","D","a","t","a"," ","C","e",
          "n","t","r","e","."," ","P","r","o","f","e","s","o","r"," ","D","r"," ","J","a","s",
          "n","i"," ","B","i","n","t","i"," ","M","o","h","a","m","a","d"," ","Z","a","i","n",
          ","," ","P","r","o","f","e","s","o","r"," ","M","a","d","y","a"," ","D","r"," ","K",
          "a","m","a","r","u","l","a","r","i","f","i","n"," ","B","i","n"," ","A","b","d"," ",
          "J","a","l","i","l",","," ","T","s","."," ","M","u","h","a","m","m","a","d"," ","A",
          "z","i","z","i"," ","B","i","n"," ","M","o","h","d"," ","A","r","i","f","f","i","n",
          ","," ","2","0","2","0"," ","-"," ","2","0","2","3",","," ","S","p","e","c","i","a",
          "l"," ","R","e","s","e","a","r","c","h"," ","G","r","a","n","t"," ","(","G","P","K",
          ")",","," ","P","r","o","j","e","c","t"," ","M","e","m","b","e","r",","," ","R","M",
          " ","2","0",",","0","0","0",".","0","0",".">>],
       [id |-> 6, type |-> "FRGS", status |-> "Active",
        title |->
          <<"A"," ","N","e","w"," ","T","e","c","h","n","i","q","u","e"," ","T","o"," ","E","n",
          "s","u","r","e"," ","H","i","g","h"," ","A","v","a","i","l","a","b","i","l","i","t",
          "y"," ","O","f"," ","S","o","f","t","w","a","r","e"," ","A","p","p","l","i","c","a",
          "t","i","o","n"," ","S","e","r","v","i","c","e","s"," ","B","y"," ","U","t","i","l",
          "i","z","i","n","g"," ","F","o","g"," ","D","e","v","i","c","e","s"," ","R","e","s",
          "o","u","r","c","e"," ","C","a","p","a","b","i","l","i","t","i","e","s">>,
        details |->
          <<"T","i","t","l","e"," ",":"," ","A"," ","N","e","w"," ","T","e","c","h","n","i","q",
          "u","e"," ","T","o"," ","E","n","s","u","r","e"," ","H","i","g","h"," ","A","v","a",
          "i","l","a","b","i","l","i","t","y"," ","O","f"," ","S","o","f","t","w","a","r","e",
          " ","A","p","p","l","i","c","a","t","i","o","n"," ","S","e","r","v","i","c","e","s",
          " ","B","y"," ","U","t","i","l","i","z","i","n","g"," ","F","o","g"," ","D","e","v",
          "i","c","e","s"," ","R","e","s","o","u","r","c","e"," ","C","a","p","a","b","i","l",
          "i","t","i","e","s","."," ","P","r","o","f","e","s","o","r"," ","D","r"," ","J","a",
          "s","n","i"," ","B","i","n","t","i"," ","M","o","h","a","m","a","d"," ","Z","a","i",
          "n",","," ","L","u","h","u","r"," ","B","a","y","u","a","j","i",","," ","N","o","r",
          "k","h","u","s","h","a","i","n","i"," ","B","t"," ","A","w","a","n","g",","," ","P",
          "r","o","f","e","s","o","r"," ","M","a","d","y","a"," ","D","r"," ","K","a","m","a",
          "r","u","l","a","r","i","f","i","n"," ","B","i","n"," ","A","b","d"," ","J","a","l",
          "i","l",","," ","T","s","."," ","M","u","h","a","m","m","a","d"," ","A","z","i","z",
          "i"," ","B","i","n"," ","M","o","h","d"," ","A","r","i","f","f","i","n",","," ","2",
          "0","2","1"," ","-"," ","2","0","2","4",","," ","F","u","n","d","a","m","e","n","t",
          "a","l"," ","R","e","s","e","a","r","c","h"," ","G","r","a","n","t"," ","S","c","h",
          "e","m","e"," ","(","F","R","G","S",")",","," ","P","r","o","j","e","c","t"," ","M",
          "e","m","b","e","r",","," ","R","M"," ","1","0","5",",","3","0","0",".","0","0">>],
       [id |-> 7, type |-> "FRGS", status |-> "Active",
        title |->
          <<"C","o","u","p","l","e","d"," ","H","y","b","r","i","d"," ","F","e","a","t","u","r",
          "e"," ","E","x","t","r","a","c","t","i","o","n"," ","A","n","d"," ","C","l","a","s",
          "s","i","f","i","c","a","t","i","o","n"," ","O","f"," ","R","a","d","a","r"," ","R",
          "e","f","l","e","c","t","i","v","i","t","y"," ","I","m","a","g","e","s"," ","F","o",
          "r"," ","C","o","n","v","e","c","t","i","v","e","-","s","t","r","a","t","i","f","o",
          "r","m"," ","T","r","o","p","i","c","a","l"," ","R","a","i","n","f","a","l","l"," ",
          "E","s","t","i","m","a","t","e","s">>,
        details |->
          <<"T","i","t","l","e"," ",":"," ","C","o","u","p","l","e","d"," ","H","y","b","r","i",
          "d"," ","F","e","a","t","u","r","e"," ","E","x","t","r","a","c","t","i","o","n"," ",
          "A","n","d"," ","C","l","a","s","s","i","f","i","c","a","t","i","o","n"," ","O","f",
          " ","R","a","d","a","r"," ","R","e","f","l","e","c","t","i","v","i","t","y"," ","I",
          "m","a","g","e","s"," ","F","o","r"," ","C","o","n","v","e","c","t","i","v","e","-",
          "s","t","r","a","t","i","f","o","r","m"," ","T","r","o","p","i","c","a","l"," ","R",
          "a","i","n","f","a","l","l"," ","E","s","t","i","m","a","t","e","s","."," ","P","r",
          "o","f","e","s","o","r"," ","T","s","."," ","D","r","."," ","W","a","r","d","a","h",
          " ","B","i","n","t","i"," ","T","a","h","i","r",","," ","P","r","o","f","e","s","o",
          "r"," ","M","a","d","y","a"," ","Z","a","i","d","a","h"," ","B","i","n","t","i"," ",
          "I","b","r","a","h","i","m",","," ","P","r","o","f","e","s","o","r"," ","M","a","d",
          "y","a"," ","I","r",".","t","s",".","d","r"," ","J","a","z","u","r","i"," ","B","i",
          "n"," ","A","b","d","u","l","l","a","h",","," ","I","r","."," ","D","r","."," ","S",
          "u","z","a","n","a"," ","B","i","n","t","i"," ","R","a","m","l","i",","," ","T","s",
          "."," ","M","u","h","a","m","m","a","d"," ","A","z","i","z","i"," ","B","i","n"," ",
          "M","o","h","d"," ","A","r","i","f","f","i","n",","," ","2","0","2","1"," ","-"," ",
          "2","0","2","4",","," ","F","u","n","d","a","m","e","n","t","a","l"," ","R","e","s",
          "e","a","r","c","h"," ","G","r","a","n","t"," ","S","c","h","e","m","e"," ","(","F",
          "R","G","S",")",","," ","P","r","o","j","e","c","t"," ","M","e","m","b","e","r",",",
          " ","R","M"," ","1","3","7",",","5","0","0",".","0","0">>] >>

\* loadFallbackPublications' array literal (scholar-publications.js:129-220).
FallbackPublications ==
    << [id |-> 1, link |-> <<"#">>,
        title |->
          <<"N","e","t","w","o","r","k"," ","t","r","a","f","f","i","c"," ","p","r","o","f","i",
          "l","i","n","g"," ","u","s","i","n","g"," ","d","a","t","a"," ","m","i","n","i","n",
          "g"," ","t","e","c","h","n","i","q","u","e"," ","i","n"," ","c","a","m","p","u","s",
          " ","e","n","v","i","r","o","n","m","e","n","t">>,
        authors |->
          <<"M","."," ","A","."," ","M","."," ","A","r","i","f","f","i","n",","," ","R","."," ",
          "I","s","h","a","k",","," ","S","."," ","A","."," ","A","h","m","a","d",","," ","a",
          "n","d"," ","Z","."," ","K","a","s","i","r","a","n">>,
        venue |->
          <<"I","n","t","e","r","n","a","t","i","o","n","a","l"," ","J","o","u","r","n","a","l",
          " ","o","f"," ","A","d","v","a","n","c","e","d"," ","T","r","e","n","d","s"," ","i",
          "n"," ","C","o","m","p","u","t","e","r"," ","S","c","i","e","n","c","e"," ","a","n",
          "d"," ","E","n","g","i","n","e","e","r","i","n","g">>,
        year |-> <<"2","0","2","0">>, citations |-> <<"1","5">>],
       [id |-> 2, link |-> <<"#">>,
        title |->
          <<"D","a","t","a"," ","l","e","a","k","a","g","e"," ","d","e","t","e","c","t","i","o",
          "n"," ","i","n"," ","c","l","o","u","d"," ","c","o","m","p","u","t","i","n","g"," ",
          "p","l","a","t","f","o","r","m">>,
        authors |->
          <<"M","."," ","A","."," ","M","."," ","A","r","i","f","f","i","n",","," ","K","."," ",
          "A","."," ","R","a","h","m","a","n",","," ","M","."," ","Y","."," ","D","a","r","u",
          "s",","," ","N","."," ","A","w","a","n","g",","," ","a","n","d"," ","Z","."," ","K",
          "a","s","i","r","a","n">>,
        venue |->
          <<"I","n","t","e","r","n","a","t","i","o","n","a","l"," ","J","o","u","r","n","a","l",
          " ","o","f"," ","A","d","v","a","n","c","e","d"," ","T","r","e","n","d","s"," ","i",
          "n"," ","C","o","m","p","u","t","e","r"," ","S","c","i","e","n","c","e"," ","a","n",
          "d"," ","E","n","g","i","n","e","e","r","i","n","g">>,
        year |-> <<"2","0","1","9">>, citations |-> <<"1","2">>],
       [id |-> 3, link |-> <<"#">>,
        title |->
          <<"A","P","I"," ","V","u","l","n","e","r","a","b","i","l","i","t","i","e","s"," ","I",
          "n"," ","C","l","o","u","d"," ","C","o","m","p","u","t","i","n","g"," ","P","l","a",
          "t","f","o","r","m",":"," ","A","t","t","a","c","k"," ","A","n","d"," ","D","e","t",
          "e","c","t","i","o","n">>,
        authors |->
          <<"M","."," ","A","."," ","M","."," ","A","r","i","f","f","i","n",","," ","M","."," ",
          "F","."," ","I","b","r","a","h","i","m"," ","a","n","d"," ","Z","."," ","K","a","s",
          "i","r","a","n">>,
        venue |->
          <<"I","n","t","e","r","n","a","t","i","o","n","a","l"," ","J","o","u","r","n","a","l",
          " ","o","f"," ","E","n","g","i","n","e","e","r","i","n","g"," ","T","r","e","n","d",
          "s"," ","a","n","d"," ","T","e","c","h","n","o","l","o","g","y"," ","(","I","J","E",
          "T","T",")">>,
        year |-> <<"2","0","2","0">>, citations |-> <<"8">>],
       [id |-> 4, link |-> <<"#">>,
        title |->
          <<"M","u","l","t","i","-","l","e","v","e","l"," ","r","e","s","i","l","i","e","n","c",
          "e"," ","i","n"," ","n","e","t","w","o","r","k","e","d"," ","e","n","v","i","r","o",
          "n","m","e","n","t","s",":"," ","C","o","n","c","e","p","t","s"," ","&"," ","p","r",
          "i","n","c","i","p","l","e","s">>,
        authors |->
          <<"M","."," ","A","."," ","M","."," ","A","r","i","f","f","i","n",","," ","A","."," ",
          "K","."," ","M","a","r","n","e","r","i","d","e","s",","," ","a","n","d"," ","A",".",
          " ","U","."," ","M","a","u","t","h","e">>,
        venue |->
          <<"2","0","1","7"," ","1","4","t","h"," ","I","E","E","E"," ","A","n","n","u","a","l",
          " ","C","o","n","s","u","m","e","r"," ","C","o","m","m","u","n","i","c","a","t","i",
          "o","n","s"," ","a","n","d"," ","N","e","t","w","o","r","k","i","n","g"," ","C","o",
          "n","f","e","r","e","n","c","e">>,
        year |-> <<"2","0","1","7">>, citations |-> <<"2","5">>],
       [id |-> 5, link |-> <<"#">>,
        title |->
          <<"A","u","t","o","m","a","t","i","c"," ","C","l","i","m","a","t","e"," ","C","o","n",
          "t","r","o","l"," ","f","o","r"," ","M","u","s","h","r","o","o","m"," ","C","u","l",
          "t","i","v","a","t","i","o","n"," ","u","s","i","n","g"," ","I","o","T"," ","A","p",
          "p","r","o","a","c","h">>,
        authors |->
          <<"A","r","i","f","f","i","n",","," ","M",".",","," ","R","a","m","l","i",","," ","M",
          ".",","," ","A","m","i","n",","," ","M",".",","," ","I","s","m","a","i","l",","," ",
          "M",".",","," ","Z","a","i","n","o","l",","," ","Z",".",","," ","A","h","m","a","d",
          ","," ","N",".",","," ","&"," ","J","a","m","i","l",","," ","N",".">>,
        venue |->
          <<"2","0","2","0"," ","I","E","E","E"," ","1","0","t","h"," ","I","n","t","e","r","n",
          "a","t","i","o","n","a","l"," ","C","o","n","f","e","r","e","n","c","e"," ","o","n",
          " ","S","y","s","t","e","m"," ","E","n","g","i","n","e","e","r","i","n","g"," ","a",
          "n","d"," ","T","e","c","h","n","o","l","o","g","y"," ","(","I","C","S","E","T",")">>,
        year |-> <<"2","0","2","0">>, citations |-> <<"1","8">>],
       [id |-> 6, link |-> <<"#">>,
        title |->
          <<"I","o","T","-","B","a","s","e","d"," ","F","l","a","s","h"," ","F","l","o","o","d",
          " ","D","e","t","e","c","t","i","o","n"," ","a","n","d"," ","A","l","e","r","t"," ",
          "U","s","i","n","g"," ","T","e","n","s","o","r","F","l","o","w">>,
        authors |->
          <<"R","a","s","h","i","d",","," ","A",".","A",".",","," ","A","r","i","f","f","i","n",
          ","," ","M",".","A",".","M",".",","," ","K","a","s","i","r","a","n",","," ","Z",".">>,
        venue |->
          <<"P","r","o","c","e","e","d","i","n","g","s"," ","-"," ","2","0","2","1"," ","1","1",
          "t","h"," ","I","E","E","E"," ","I","n","t","e","r","n","a","t","i","o","n","a","l",
          " ","C","o","n","f","e","r","e","n","c","e"," ","o","n"," ","C","o","n","t","r","o",
          "l"," ","S","y","s","t","e","m",","," ","C","o","m","p","u","t","i","n","g"," ","a",
          "n","d"," ","E","n","g","i","n","e","e","r","i","n","g">>,
        year |-> <<"2","0","2","1">>, citations |-> <<"1","0">>],
       [id |-> 7, link |-> <<"#">>,
        title |->
          <<"L","o","c","a","l"," ","F","i","l","e"," ","I","n","c","l","u","s","i","o","n"," ",
          "V","u","l","n","e","r","a","b","i","l","i","t","y"," ","S","c","a","n","n","e","r",
          " ","w","i","t","h"," ","T","o","r"," ","P","r","o","x","y">>,
        authors |->
          <<"K","."," ","A","."," ","H","."," ","H","."," ","B","."," ","C","."," ","K","."," ",
          "M","."," ","S","a","h","i","d","i",","," ","M","."," ","A","."," ","M","."," ","A",
          "r","i","f","f","i","n",","," ","M","."," ","I","."," ","R","a","m","l","i"," ","a",
          "n","d"," ","Z","."," ","K","a","s","i","r","a","n">>,
        venue |->
          <<"2","0","2","1"," ","I","E","E","E"," ","I","n","t","e","r","n","a","t","i","o","n",
          "a","l"," ","C","o","n","f","e","r","e","n","c","e"," ","o","n"," ","S","i","g","n",
          "a","l"," ","a","n","d"," ","I","m","a","g","e"," ","P","r","o","c","e","s","s","i",
          "n","g"," ","A","p","p","l","i","c","a","t","i","o","n","s"," ","(","I","C","S","I",
          "P","A",")">>,
        year |-> <<"2","0","2","1">>, citations |-> <<"5">>],
       [id |-> 8, link |-> <<"#">>,
        title |->
          <<"A"," ","C","a","s","e"," ","S","t","u","d","y"," ","O","n"," ","D","i","g","i","t",
          "a","l"," ","D","i","v","i","d","e"," ","A","n","d"," ","A","c","c","e","s","s"," ",
          "T","o"," ","I","n","f","o","r","m","a","t","i","o","n"," ","C","o","m","m","u","n",
          "i","c","a","t","i","o","n"," ","T","e","c","h","n","o","l","o","g","i","e","s"," ",
          "(","I","c","t","s",")"," ","I","n"," ","P","u","l","a","u"," ","T","u","b","a",",",
          " ","L","a","n","g","k","a","w","i",","," ","M","a","l","a","y","s","i","a">>,
        authors |->
          <<"E","t","."," ","a","l",".",","," ","M",".">>,
        venue |->
          <<"T","u","r","k","i","s","h"," ","J","o","u","r","n","a","l"," ","O","f"," ","C","o",
          "m","p","u","t","e","r"," ","A","n","d"," ","M","a","t","h","e","m","a","t","i","c",
          "s"," ","E","d","u","c","a","t","i","o","n"," ","(","T","U","R","C","O","M","A","T",
          ")">>,
        year |-> <<"2","0","2","1">>, citations |-> <<"7">>],
       [id |-> 9, link |-> <<"#">>,
        title |->
          <<"D","e","t","e","c","t","i","n","g"," ","A","n","o","m","a","l","y"," ","i","n"," ",
          "I","o","T"," ","D","e","v","i","c","e","s"," ","u","s","i","n","g"," ","M","u","l",
          "t","i","-","T","h","r","e","a","d","e","d"," ","A","u","t","o","n","o","m","o","u",
          "s"," ","A","n","o","m","a","l","y"," ","D","e","t","e","c","t","i","o","n">>,
        authors |->
          <<"M","Y","I"," ","B","a","s","h","e","e","r",","," ","A","M"," ","A","l","i",","," ",
          "N","H","A"," ","H","a","m","i","d",","," ","M","A","M"," ","A","r","i","f","f","i",
          "n",","," ","R"," ","O","s","m","a","n",","," ","S"," ","N","o","r","d","i","n">>,
        venue |->
          <<"2","0","2","1"," ","4","t","h"," ","I","n","t","e","r","n","a","t","i","o","n","a",
          "l"," ","S","y","m","p","o","s","i","u","m"," ","o","n"," ","A","g","e","n","t","s",
          ","," ","M","u","l","t","i","-","A","g","e","n","t"," ","S","y","s","t","e","m","s",
          " ","a","n","d"," ","R","o","b","o","t","i","c","s">>,
        year |-> <<"2","0","2","1">>, citations |-> <<"3">>],
       [id |-> 10, link |-> <<"#">>,
        title |->
          <<"I","m","p","l","e","m","e","n","t","a","t","i","o","n"," ","O","f"," ","D","y","n",
          "a","m","i","c"," ","H","o","n","e","y","p","o","t"," ","O","n"," ","R","a","s","p",
          "b","e","r","r","y"," ","P","i">>,
        authors |->
          <<"A","D","I"," ","R","I","D","Z","A","N"," ","A","D","N","A","N",","," ","M","U","H",
          "A","M","M","A","D"," ","A","Z","I","Z","I"," ","B","I","N"," ","M","O","H","D"," ",
          "A","R","I","F","F","I","N">>,
        venue |->
          <<"i","-","I","D","e","A"," ","2","0","2","0"," ","-"," ","5","T","H"," ","I","N","T",
          "E","R","N","A","T","I","O","N","A","L"," ","I","N","N","O","V","A","T","I","O","N",
          ","," ","D","E","S","I","G","N"," ","&"," ","A","R","T","I","C","U","L","A","T","I",
          "O","N">>,
        year |-> <<"2","0","2","1">>, citations |-> <<"2">>] >>

---------------------------------------------------------------------------
(* ExpertResearchGrants: the extraction heuristics.                        *)

\* parseResearchGrants' possibleSelectors, in array order.
possibleSelectors ==
    <<".research-item", ".grant-item", "table tr", ".list-item", ".research-list li">>

\* doc.querySelectorAll(selectors[i]): the matched elements, in document order.
querySelectorAll(doc, i) == doc[i]

isResearchGrantText(text) ==
    LET lower == toLowerCase(text)
    IN  \E k \in 1..Len(researchKeywords) : includes(lower, toLowerCase(researchKeywords[k]))

extractTitle(text) ==
    LET lines == SelectSeq(split(text, "\n"), LAMBDA line : Len(trim(line)) > 0)
    IN  IF Len(lines) > 0
        THEN substring(trim(lines[1]), GrantTitleLimit)
                \o (IF Len(lines[1]) > GrantTitleLimit THEN Ellipsis ELSE << >>)
        ELSE substring(text, GrantTitleLimit)
                \o (IF Len(text) > GrantTitleLimit THEN Ellipsis ELSE << >>)

\* Mutant of extractType: 'kpm' is looked for before 'racer'.
extractType_KpmBeforeRacer(text) ==
    LET lower == toLowerCase(text)
    IN  IF includes(lower, <<"f","r","g","s">>) THEN "FRGS"
        ELSE IF includes(lower, <<"k","p","m">>) THEN "KPM"
        ELSE IF includes(lower, <<"r","a","c","e","r">>) THEN "RACER"
        ELSE IF includes(lower, <<"l","e","s","t","a","r","i">>) THEN "LESTARI"
        ELSE IF includes(lower, <<"i","n","t","e","r","n","a","t","i","o","n","a","l">>) THEN "International"
        ELSE IF includes(lower, <<"n","a","t","i","o","n","a","l">>) THEN "National"
        ELSE "Research Grant"

\* Mutant of extractType: 'national' is looked for before 'international'.
extractType_NationalFirst(text) ==
    LET lower == toLowerCase(text)
    IN  IF includes(lower, <<"f","r","g","s">>) THEN "FRGS"
        ELSE IF includes(lower, <<"r","a","c","e","r">>) THEN "RACER"
        ELSE IF includes(lower, <<"l","e","s","t","a","r","i">>) THEN "LESTARI"
        ELSE IF includes(lower, <<"k","p","m">>) THEN "KPM"
        ELSE IF includes(lower, <<"n","a","t","i","o","n","a","l">>) THEN "National"
        ELSE IF includes(lower, <<"i","n","t","e","r","n","a","t","i","o","n","a","l">>) THEN "International"
        ELSE "Research Grant"

extractType(text) ==
    LET lower == toLowerCase(text)
    IN  IF includes(lower, <<"f","r","g","s">>) THEN "FRGS"
        ELSE IF includes(lower, <<"r","a","c","e","r">>) THEN "RACER"
        ELSE IF includes(lower, <<"l","e","s","t","a","r","i">>) THEN "LESTARI"
        ELSE IF includes(lower, <<"k","p","m">>) THEN "KPM"
        ELSE IF includes(lower, <<"i","n","t","e","r","n","a","t","i","o","n","a","l">>) THEN "International"
        ELSE IF includes(lower, <<"n","a","t","i","o","n","a","l">>) THEN "National"
        ELSE "Research Grant"

\* Mutant of extractStatus: the years and 'active' are looked for first.
extractStatus_ActiveFirst(text) ==
    LET lower == toLowerCase(text)
    IN  IF includes(lower, <<"a","c","t","i","v","e">>) \/ includes(lower, <<"o","n","g","o","i","n","g">>) THEN "Active"
        ELSE IF \/ includes(lower, <<"2","0","2","0">>) \/ includes(lower, <<"2","0","2","1">>)
                \/ includes(lower, <<"2","0","2","2">>) \/ includes(lower, <<"2","0","2","3">>)
                \/ includes(lower, <<"2","0","2","4">>) \/ includes(lower, <<"2","0","2","5">>)
             THEN "Active"
        ELSE IF includes(lower, <<"c","o","m","p","l","e","t","e","d">>) THEN "Completed"
        ELSE "Unknown"

extractStatus(text) ==
    LET lower == toLowerCase(text)
    IN  IF includes(lower, <<"c","o","m","p","l","e","t","e","d">>) THEN "Completed"
        ELSE IF includes(lower, <<"a","c","t","i","v","e">>) \/ includes(lower, <<"o","n","g","o",
          "i","n","g">>) THEN "Active"
        ELSE IF \/ includes(lower, <<"2","0","2","0">>) \/ includes(lower, <<"2","0","2","1">>)
                \/ includes(lower, <<"2","0","2","2">>) \/ includes(lower, <<"2","0","2","3">>)
                \/ includes(lower, <<"2","0","2","4">>) \/ includes(lower, <<"2","0","2","5">>)
             THEN "Active"
        ELSE "Unknown"

loadFallbackResearchGrants == FallbackResearchGrants

\* Mutant of grantRecord: the id is the array length before the push.
grantRecord_IdFromZero(text, researchGrants) ==
    [id |-> Len(researchGrants),
     title |-> extractTitle(text),
     details |-> text,
     type |-> extractType(text),
     status |-> extractStatus(text)]

\* The record parseResearchGrants pushes for a kept text, given the array so far.
grantRecord(text, researchGrants) ==
    [id |-> Len(researchGrants) + 1,
     title |-> extractTitle(text),
     details |-> text,
     type |-> extractType(text),
     status |-> extractStatus(text)]

\* Mutant of keepsText: a text of exactly the minimum length passes.
keepsText_AtLeastMinimum(text) ==
    /\ Len(text) > 0
    /\ Len(text) >= MinTextLength
    /\ isResearchGrantText(text)

\* The filter of parseResearchGrants' forEach body.
keepsText(text) ==
    /\ Len(text) > 0
    /\ Len(text) > MinTextLength
    /\ isResearchGrantText(text)

\* Mutant of firstMatch: the loop has no break, the last matching selector wins.
firstMatch_LastWins(doc, selectors) ==
    LET matching == {i \in 1..Len(selectors) : Len(querySelectorAll(doc, i)) > 0}
    IN  IF matching = {} THEN << >> ELSE querySelectorAll(doc, Max(matching))

\* The element set the selector loop settles on: that of the first selector
\* with at least one match, or none.
firstMatch(doc, selectors) ==
    LET matching == {i \in 1..Len(selectors) : Len(querySelectorAll(doc, i)) > 0}
    IN  IF matching = {} THEN << >> ELSE querySelectorAll(doc, Min(matching))

\* this.researchGrants when the selector loop of parseResearchGrants ends:
\* emptied, then one push per kept element of the chosen element set.
pushedGrants(doc) ==
    LET elements == firstMatch(doc, possibleSelectors)
        pushed[n \in 0..Len(elements)] ==
            IF n = 0 THEN << >>
            ELSE LET text == trim(elements[n])
                 IN  IF keepsText(text)
                     THEN Append(pushed[n - 1], grantRecord(text, pushed[n - 1]))
                     ELSE pushed[n - 1]
    IN  pushed[Len(elements)]

\* Mutant of parseResearchGrants: the final fallback check is missing.
parseResearchGrants_NoFallback(doc) == pushedGrants(doc)

\* this.researchGrants when parseResearchGrants(html) returns.
parseResearchGrants(doc) ==
    IF Len(pushedGrants(doc)) = 0 THEN loadFallbackResearchGrants ELSE pushedGrants(doc)

---------------------------------------------------------------------------
(* ScholarPublications: the extraction.                                    *)

\* parsePublications' selectors, in array order.
selectors == <<".gsc_a_tr", ".gsc_a_t", ".gsc_a_at", "tr[data-rid]", ".gsc_a_tc">>

\* The queries parsePublications runs inside a matched element.
NestedQueries ==
    {".gsc_a_at", "a[href*=scholar]", ".gsc_a_t a", ".gs_gray", ".gsc_a_at + .gs_gray",
     ".gs_gray:last-child", "querySelectorAll(.gs_gray)[1]", ".gsc_a_y", ".gsc_a_yc",
     ".gsc_a_c", ".gsc_a_c a"}

\* What a nested query answers when nothing matches.
null == [present |-> FALSE, textContent |-> << >>, href |-> << >>]

\* element.querySelector(q)
querySelector(element, q) == element.found[q]

\* a || b on two query answers
orElse(a, b) == IF a.present THEN a ELSE b

loadFallbackPublications == FallbackPublications

\* The object parsePublications' map callback returns for (element, index).
publicationRecord(element, index) ==
    LET titleElement ==
            orElse(querySelector(element, ".gsc_a_at"),
                   orElse(querySelector(element, "a[href*=scholar]"),
                          querySelector(element, ".gsc_a_t a")))
        authorsElement ==
            orElse(querySelector(element, ".gs_gray"),
                   querySelector(element, ".gsc_a_at + .gs_gray"))
        venueElement ==
            orElse(querySelector(element, ".gs_gray:last-child"),
                   querySelector(element, "querySelectorAll(.gs_gray)[1]"))
        yearElement ==
            orElse(querySelector(element, ".gsc_a_y"), querySelector(element, ".gsc_a_yc"))
        citationsElement ==
            orElse(querySelector(element, ".gsc_a_c"), querySelector(element, ".gsc_a_c a"))
        firstLine == trim(split(element.textContent, "\n")[1])
        title ==
            IF titleElement.present THEN trim(titleElement.textContent)
            ELSE IF Len(firstLine) > 0 THEN firstLine ELSE <<"U","n","k","n","o","w","n"," ","T",
          "i","t","l","e">>
    IN  [id |-> index,
         title |-> IF Len(title) > PubTitleLimit
                   THEN substring(title, PubTitleLimit) \o Ellipsis
                   ELSE title,
         authors |-> IF authorsElement.present THEN trim(authorsElement.textContent)
                     ELSE <<"U","n","k","n","o","w","n"," ","A","u","t","h","o","r","s">>,
         venue |-> IF venueElement.present THEN trim(venueElement.textContent)
                   ELSE <<"U","n","k","n","o","w","n"," ","V","e","n","u","e">>,
         year |-> IF yearElement.present THEN trim(yearElement.textContent)
                  ELSE <<"U","n","k","n","o","w","n"," ","Y","e","a","r">>,
         citations |-> IF citationsElement.present THEN trim(citationsElement.textContent)
                       ELSE <<"0">>,
         link |-> IF titleElement.present THEN titleElement.href ELSE <<"#">>]

\* Array.from(publicationElements).map(...): one record per matched element.
mappedPublications(doc) ==
    LET publicationElements == firstMatch(doc, selectors)
    IN  [i \in 1..Len(publicationElements) |-> publicationRecord(publicationElements[i], i)]

\* Mutant of parsePublications: the fallback is used only when nothing was found.
parsePublications_OnlyWhenEmpty(doc) ==
    IF Len(mappedPublications(doc)) = 0 THEN loadFallbackPublications
    ELSE mappedPublications(doc)

\* this.publications when parsePublications(html) returns.
parsePublications(doc) ==
    IF Len(mappedPublications(doc)) = 0 \/ Len(mappedPublications(doc)) < MinPublications
    THEN loadFallbackPublications
    ELSE mappedPublications(doc)

---------------------------------------------------------------------------
(* The pages the proxy may answer with.                                    *)

\* Bounds of the model.
MaxGrantElems == 3
MaxPubElems == 6
MaxCalls == 2
\* The number of configured selectors of either class.
NumSelectors == 5

Repeat(c, n) == [i \in 1..n |-> c]

\* A document matching nothing.
EmptyDoc == [i \in 1..NumSelectors |-> << >>]

\* The document in which selector i matches `elements` and no other matches.
DocWith(i, elements) == [EmptyDoc EXCEPT ![i] = elements]

\* Sequences over S of length 1..n.
SeqUpTo(S, n) == UNION {[1..k -> S] : k \in 1..n}

\* Grant texts the structural documents are made of: two that are kept (one
\* with surrounding white space), one of exactly 10 characters.
TextKept == <<"F","R","G","S"," ","g","r","a","n","t"," ","A">>
TextPadded == <<"\n"," "," ","C","o","m","p","l","e","t","e","d"," ","p","r","o","j","e","c","t",
          " ","2","0","2","4"," ","\n">>
TextTen == <<"g","r","a","n","t"," ","d","a","t","a">>
TextLater == <<"L","E","S","T","A","R","I"," ","f","u","n","d","i","n","g"," ","2","0","2","1">>
StructTexts == {TextKept, TextPadded, TextTen}

\* The fallback's first record's details, as the page might show them.
TextRacer == FallbackResearchGrants[1].details

\* Texts exercising the title cut, the filter and the classifiers.
RichTexts ==
    { TextRacer,
      <<"g","r","a","n","t"," ">> \o Repeat("x", 94),
      <<"g","r","a","n","t"," ">> \o Repeat("x", 95),
      <<"g","r","a","n","t"," ">> \o Repeat("x", 92) \o <<" "," "," ","\n","s","e","c","o","n","d",
          " ","l","i","n","e">>,
      <<"g","r","a","n","t"," ">> \o Repeat("x", 94) \o <<"\r","\n","s","e","c","o","n","d"," ","l",
          "i","n","e">>,
      <<"g","r","a","n","t"," ">> \o Repeat("x", 94) \o <<"\n","s","e","c","o","n","d"," ","l","i",
          "n","e">>,
      <<"g","r","a","n","t"," ">> \o Repeat("x", 95) \o <<"\n","s","e","c","o","n","d"," ","l","i",
          "n","e">>,
      <<"S","m","a","r","t"," ","f","a","r","m","i","n","g","\n","s","e","c","o","n","d"," ","l",
          "i","n","e">>,
      <<"U","r","b","a","n"," ","t","i","t","l","e"," ","\n","\n"," "," ","\n","l","a","t","e","r",
          " ","l","i","n","e">>,
      <<"C","o","m","p","l","e","t","e","d"," ","F","R","G","S"," ","g","r","a","n","t"," ","2","0",
          "2","4",","," ","a","c","t","i","v","e">>,
      <<"C","O","M","P","L","E","T","E","D"," ","r","e","s","e","a","r","c","h">>,
      <<"O","n","g","o","i","n","g"," ","r","e","s","e","a","r","c","h"," ","p","r","o","j","e","c",
          "t">>,
      <<"A","C","T","I","V","E"," ","g","r","a","n","t"," ","F","R","G","S">>,
      <<"R","e","s","e","a","r","c","h"," ","p","r","o","j","e","c","t"," ","2","0","2","3">>,
      <<"r","e","s","e","a","r","c","h"," ","i","n"," ","2","0","1","9"," ","o","n","l","y">>,
      <<"I","n","t","e","r","a","c","t","i","v","e"," ","d","a","t","a">>,
      <<"g","r","a","n","t"," ","2","0","2","0","-","2","0","2","1">>,
      <<"f","u","n","d","i","n","g"," ","2","0","2","5"," ","L","E","S","T","A","R","I">>,
      <<"p","r","o","j","e","c","t"," ","2","0","2","1"," ","o","n","l","y">>,
      <<"p","r","o","j","e","c","t"," ","2","0","2","2"," ","o","n","l","y">>,
      <<"p","r","o","j","e","c","t"," ","2","0","2","4"," ","o","n","l","y">>,
      <<"R","A","C","E","R"," ","a","n","d"," ","F","R","G","S"," ","g","r","a","n","t">>,
      <<"k","p","m"," ","l","e","s","t","a","r","i"," ","g","r","a","n","t">>,
      <<"i","n","t","e","r","n","a","t","i","o","n","a","l"," ","K","P","M"," ","g","r","a","n","t">>,
      <<"N","a","t","i","o","n","a","l"," ","K","P","M"," ","f","u","n","d","i","n","g">>,
      <<"L","e","s","t","a","r","i"," ","F","R","G","S"," ","r","a","c","e","r">>,
      <<"p","r","o","j","e","c","t"," ","o","f"," ","2","0","2","6"," ","K","P","M">>,
      <<"I","n","t","e","r","n","a","t","i","o","n","a","l"," ","a","n","d"," ","n","a","t","i","o",
          "n","a","l"," ","g","r","a","n","t">>,
      <<"N","a","t","i","o","n","a","l"," ","r","e","s","e","a","r","c","h"," ","g","r","a","n",
          "t">>,
      <<"K","P","M"," ","a","n","d"," ","f","r","g","s"," ","r","e","s","e","a","r","c","h">>,
      <<"l","e","s","t","a","r","i"," ","r","a","c","e","r"," ","p","r","o","j","e","c","t">>,
      <<"U","R","B","A","N"," ","F","A","R","M","I","N","G"," ","X">>,
      <<"u","i","t","m"," ","c","a","m","p","u","s"," ","x","y","z">>,
      <<"g","r","a","n","t"," ","d","a","t","a","!">>,
      <<" "," ","g","r","a","n","t"," ","d","a","t","a"," "," ">>,
      <<"L","o","r","e","m"," ","i","p","s","u","m"," ","d","o","l","o","r"," ","s","i","t">> }

GrantDocs ==
    {EmptyDoc}
    \cup {DocWith(i, es) : i \in 1..NumSelectors, es \in SeqUpTo(StructTexts, MaxGrantElems)}
    \cup UNION {{[DocWith(i, <<t>>) EXCEPT ![j] = <<TextLater>>] :
                    j \in (i + 1)..NumSelectors, t \in StructTexts} :
                 i \in 1..(NumSelectors - 1)}
    \cup {DocWith(1, <<t>>) : t \in RichTexts}

\* A matched node of a nested query.
Node(text, href) == [present |-> TRUE, textContent |-> text, href |-> href]

\* An element with the given text and nested-query answers (null elsewhere).
Element(text, answers) ==
    [textContent |-> text,
     found |-> [q \in NestedQueries |-> IF q \in DOMAIN answers THEN answers[q] ELSE null]]

NoAnswers == [q \in {} |-> null]

\* A Scholar table row as the profile page has them.
RowStandard ==
    Element(<<"\n","N","e","t","w","o","r","k"," ","p","a","p","e","r","\n","A","."," ","A","u","t",
          "h","o","r","\n","J","o","u","r","n","a","l"," ","X","\n","1","5","\n","2","0","2","0","\n">>,
            ".gsc_a_at" :> Node(<<" ","N","e","t","w","o","r","k"," ","p","a","p","e","r"," ">>, <<"/",
          "c","i","t","a","t","i","o","n","s","?","a","=","1">>)
            @@ ".gs_gray" :> Node(<<"A","."," ","A","u","t","h","o","r">>, << >>)
            @@ ".gs_gray:last-child" :> Node(<<"J","o","u","r","n","a","l"," ","X">>, << >>)
            @@ "querySelectorAll(.gs_gray)[1]" :> Node(<<"J","o","u","r","n","a","l"," ","X">>, << >>)
            @@ ".gsc_a_y" :> Node(<<"2","0","2","0">>, << >>)
            @@ ".gsc_a_c" :> Node(<<"1","5">>, << >>))
\* An element with no inner structure: the title is its first line.
RowBare == Element(<<"P","a","p","e","r"," ","t","w","o"," ","\n"," ","m","o","r","e">>, NoAnswers)
\* A first line of white space only.
RowBlank == Element(<<" "," ","\n","P","a","p","e","r"," ","t","h","r","e","e">>, NoAnswers)
\* A title link found by the second alternative, its text one over the limit.
RowLong ==
    Element(Repeat("y", 151),
            "a[href*=scholar]" :> Node(Repeat("y", 151), <<"/","s","c","h","o","l","a","r","?","b",
          "=","2">>)
            @@ ".gsc_a_yc" :> Node(<<"2","0","2","1">>, << >>)
            @@ ".gsc_a_c a" :> Node(<<"7">>, << >>))
\* A title exactly at the limit once trimmed; a single grey line.
RowExact ==
    Element(<<" ">> \o Repeat("z", 150) \o <<" ">>,
            ".gsc_a_t a" :> Node(<<" ">> \o Repeat("z", 150) \o <<" ">>, <<"/","c","i","t","a","t",
          "i","o","n","s","?","c","=","3">>)
            @@ ".gs_gray" :> Node(<<"B","."," ","A","u","t","h","o","r">>, << >>))

PubElements == <<RowStandard, RowBare, RowLong, RowBlank, RowExact>>

\* n elements taken from PubElements in turn, starting at `start`.
Rows(n, start) ==
    [k \in 1..n |-> PubElements[((start + k - 2) % Len(PubElements)) + 1]]

PubDocs ==
    {EmptyDoc}
    \cup {DocWith(i, Rows(n, 1)) : i \in 1..NumSelectors, n \in 1..MaxPubElems}
    \cup {DocWith(1, Rows(n, s)) : n \in 1..MaxPubElems, s \in 1..Len(PubElements)}
    \cup {[DocWith(i, Rows(n, 1)) EXCEPT ![i + 1] = Rows(MaxPubElems, 2)] :
            i \in 1..(NumSelectors - 1), n \in {1, MinPublications - 1, MinPublications}}

\* Every page of the bounded families: what a single extraction is checked on.
Pages(w) == IF w = "grants" THEN GrantDocs ELSE PubDocs

\* A few pages of each kind (nothing matches; everything is discarded or too
\* few; records are extracted; a later selector matches too; more than 10
\* publications): what repeated and overlapping invocations are checked on.
SampleGrantDocs ==
    { EmptyDoc,
      DocWith(1, <<TextKept>>),
      DocWith(3, <<TextTen>>),
      DocWith(2, <<TextPadded, TextTen, TextKept>>),
      [DocWith(1, <<TextTen>>) EXCEPT ![4] = <<TextLater>>],
      DocWith(5, <<<<"O","n","g","o","i","n","g"," ","r","e","s","e","a","r","c","h"," ","p","r",
          "o","j","e","c","t">>, TextPadded>>) }

SamplePubDocs ==
    { EmptyDoc,
      DocWith(1, Rows(1, 1)),
      DocWith(2, Rows(MinPublications - 1, 2)),
      DocWith(1, Rows(MinPublications, 1)),
      DocWith(3, Rows(10, 3)),
      DocWith(1, Rows(11, 1)),
      [DocWith(1, Rows(2, 1)) EXCEPT ![2] = Rows(MinPublications, 2)] }

SamplePages(w) == IF w = "grants" THEN SampleGrantDocs ELSE SamplePubDocs

---------------------------------------------------------------------------
(* The widget: constructor, init, fetch, display, refresh, modal handler.  *)

Widgets == {"grants", "publications"}
Calls == 1..MaxCalls

loadFallback(w) ==
    IF w = "grants" THEN loadFallbackResearchGrants ELSE loadFallbackPublications

\* The record array when parseResearchGrants / parsePublications returns.
parse(w, doc) == IF w = "grants" THEN parseResearchGrants(doc) ELSE parsePublications(doc)

\* parse of every page, computed once.
parsed == [w \in Widgets |-> [doc \in Pages(w) \cup SamplePages(w) |-> parse(w, doc)]]

\* The record array if the parse is cut short by an exception: grants have
\* been emptied and refilled so far, publications are assigned only at the end.
parseInterrupted(w, doc, current) == IF w = "grants" THEN pushedGrants(doc) ELSE current

\* parseInterrupted of every grants page (it does not read the current
\* array), computed once.
interrupted ==
    [doc \in GrantDocs \cup SampleGrantDocs |-> parseInterrupted("grants", doc, << >>)]

\* Mutant of afterCatch: the catch clause logs and loads nothing.
afterCatch_LoadsNothing(w, threw, tried) == tried

\* The catch and finally clauses of fetchResearchGrants / fetchPublications,
\* given how the try block ended: the record array afterwards.
afterCatch(w, threw, tried) == IF threw THEN loadFallback(w) ELSE tried

\* Whether the promise of the fetch operation is fulfilled: its catch clause
\* handles every exception of the try block and throws none.
fetchSettles(threw) == "fetched"

\* Mutant of initSettles: init() has no catch clause.
initSettles_NoCatch(threw) == IF threw THEN "rejected" ELSE "resolved"

\* How init() settles, given whether its try block threw: the catch clause
\* logs, shows the notice and returns.
initSettles(threw) == "resolved"

TextAreaInitial == [kind |-> "initial", blocks |-> << >>, note |-> "none"]
TextAreaLoading == [kind |-> "loading", blocks |-> << >>, note |-> "none"]
TextAreaError == [kind |-> "error", blocks |-> << >>, note |-> "profile link"]

\* showLoadingState: the spinner, when the container exists.
showLoadingState(area, present) == IF present THEN TextAreaLoading ELSE area

\* displayError: the 'unable to load' notice, when the container exists.
displayError(area, present) == IF present THEN TextAreaError ELSE area

\* The ids of the records with the given status, in array order.
idsWithStatus(recs, status) ==
    LET picked == SelectSeq(recs, LAMBDA r : r.status = status)
    IN  [i \in 1..Len(picked) |-> picked[i].id]

\* displayResearchGrants: the active grants, then the completed ones, then
\* the note on the data source.
displayResearchGrants(area, present, recs) ==
    IF ~present THEN area
    ELSE [kind |-> "list",
          blocks |-> idsWithStatus(recs, "Active") \o idsWithStatus(recs, "Completed"),
          note |-> "fetched from UiTM Expert"]

\* displayPublications: every publication, then the note on the data source.
displayPublications(area, present, recs) ==
    IF ~present THEN area
    ELSE LET isUsingFallback == Len(recs) <= 10
         IN  [kind |-> "list",
              blocks |-> [i \in 1..Len(recs) |-> recs[i].id],
              note |-> IF isUsingFallback THEN "cached" ELSE "fetched from Google Scholar"]

display(w, area, present, recs) ==
    IF w = "grants" THEN displayResearchGrants(area, present, recs)
    ELSE displayPublications(area, present, recs)

NoFetch == [how |-> "none", doc |-> EmptyDoc]

Init ==
    /\ widget \in Widgets
    /\ records = << >>
    /\ isLoading = FALSE
    /\ pc = [c \in Calls |-> "idle"]
    /\ hasTextArea \in BOOLEAN
    /\ textArea = TextAreaInitial
    /\ last = NoFetch

Settled == {"idle", "resolved", "rejected"}

\* init() up to its first suspension: fetch...() sets the flag, shows the
\* spinner and issues the request.
StartInit ==
    LET free == {c \in Calls : pc[c] \in Settled}
    IN  /\ free # {}
        /\ pc' = [pc EXCEPT ![Min(free)] = "awaitFetch"]
        /\ isLoading' = TRUE
        /\ textArea' = showLoadingState(textArea, hasTextArea)
        /\ UNCHANGED <<widget, records, hasTextArea, last>>

\* Mutant of ShowModal: the handler calls init() whatever the array holds.
ShowModal_AlwaysInit ==
    StartInit

\* The 'show.bs.modal' handler.
ShowModal ==
    IF Len(records) = 0 THEN StartInit ELSE UNCHANGED vars

\* refresh(), called on the global instance.
Refresh == StartInit

\* Mutant of Finish: what the fetch operation produced is added to the array.
Finish_Accumulates(c, how, doc, threw, tried) ==
    /\ records' = records \o afterCatch(widget, threw, tried)
    /\ isLoading' = FALSE
    /\ pc' = [pc EXCEPT ![c] = fetchSettles(threw)]
    /\ last' = [how |-> how, doc |-> doc]
    /\ UNCHANGED <<widget, hasTextArea, textArea>>

\* The fetch operation ends: catch and finally have run, the promise settles.
Finish(c, how, doc, threw, tried) ==
    /\ records' = afterCatch(widget, threw, tried)
    /\ isLoading' = FALSE
    /\ pc' = [pc EXCEPT ![c] = fetchSettles(threw)]
    /\ last' = [how |-> how, doc |-> doc]
    /\ UNCHANGED <<widget, hasTextArea, textArea>>

\* The request settles: it rejects, answers with a status that is not ok, or
\* answers ok, and then the body is awaited.
FetchSettled(c) ==
    /\ pc[c] = "awaitFetch"
    /\ \/ Finish(c, "rejected", EmptyDoc, TRUE, records)
       \/ Finish(c, "notOk", EmptyDoc, TRUE, records)
       \/ /\ pc' = [pc EXCEPT ![c] = "awaitText"]
          /\ UNCHANGED <<widget, records, isLoading, hasTextArea, textArea, last>>

\* response.text() settles: it rejects, or gives the page, which is parsed;
\* the parse returns or throws on the way.
TextSettled(c, pages) ==
    /\ pc[c] = "awaitText"
    /\ \/ Finish(c, "bodyFailed", EmptyDoc, TRUE, records)
       \/ \E doc \in pages :
            Finish(c, "parseThrew", doc, TRUE,
                   IF widget = "grants" THEN interrupted[doc]
                   ELSE parseInterrupted(widget, doc, records))
       \/ \E doc \in pages :
            Finish(c, "parsed", doc, FALSE, parsed[widget][doc])

\* init() resumes after the fetch operation: it renders, and shows the notice
\* if the fetch operation rejected or the rendering throws.
Resume(c) ==
    /\ pc[c] \in {"fetched", "fetchRejected"}
    /\ \E renderThrows \in {b \in BOOLEAN : b => hasTextArea} :
         LET threw == pc[c] = "fetchRejected" \/ renderThrows
         IN  /\ textArea' = IF threw THEN displayError(textArea, hasTextArea)
                            ELSE display(widget, textArea, hasTextArea, records)
             /\ pc' = [pc EXCEPT ![c] = initSettles(threw)]
    /\ UNCHANGED <<widget, records, isLoading, hasTextArea, last>>

Next ==
    \/ ShowModal
    \/ Refresh
    \/ \E c \in Calls : FetchSettled(c)
    \/ \E c \in Calls : TextSettled(c, SamplePages(widget))
    \/ \E c \in Calls : Resume(c)

Spec == Init /\ [][Next]_vars

\* One invocation, from the first opening of the modal to the rendering, on
\* every page of the bounded families.
FirstShowModal == (\A c \in Calls : pc[c] = "idle") /\ ShowModal

NextPages ==
    \/ FirstShowModal
    \/ FetchSettled(1)
    \/ TextSettled(1, Pages(widget))
    \/ Resume(1)

SpecPages == Init /\ [][NextPages]_vars

---------------------------------------------------------------------------
(* What the claims are stated with.                                        *)

\* The hardcoded dataset of the widget at hand.
Fallback == IF widget = "grants" THEN FallbackResearchGrants ELSE FallbackPublications

\* No configured selector matches anything in the page.
NoMatch(doc) == \A i \in 1..NumSelectors : doc[i] = << >>

\* The elements of the first selector, in priority order, that matches any.
Selected(doc) ==
    IF NoMatch(doc) THEN << >>
    ELSE doc[CHOOSE i \in 1..NumSelectors :
                doc[i] # << >> /\ \A j \in 1..(i - 1) : doc[j] = << >>]

\* The latest fetch operation got a page and parsed it to the end.
Parsed == last.how = "parsed"

\* The latest fetch operation failed: the request rejected, the status was
\* not ok, reading the body failed, or the parse threw.
Failed == last.how \in {"rejected", "notOk", "bodyFailed", "parseThrew"}

\* s is t with some elements left out, the order kept.
IsSubsequence(s, t) ==
    \E f \in [1..Len(s) -> 1..Len(t)] :
        /\ \A i \in 1..Len(s) : s[i] = t[f[i]]
        /\ \A i \in 1..Len(s), j \in 1..Len(s) : i < j => f[i] < f[j]

---------------------------------------------------------------------------
(* C1: whenever the parsed page has no element matching any configured     *)
(* selector, the record sequence after the parse is exactly the variant's  *)
(* hardcoded fallback (7 grants / 10 publications, in array order),        *)
(* whatever it held before.                                                *)
C1_NoMatchGivesFallback ==
    (Parsed /\ NoMatch(last.doc)) =>
        /\ records = Fallback
        /\ Len(records) = (IF widget = "grants" THEN 7 ELSE 10)
        /\ \A i \in 1..Len(records) : records[i].id = i

\* A page matching nothing was parsed while the modal still lists an earlier
\* extraction of fewer records.
C1_Witness ==
    /\ Parsed /\ NoMatch(last.doc)
    /\ textArea.kind = "list" /\ Len(textArea.blocks) \in 1..3
    /\ records = Fallback

(* C2: publications: 1 to 4 matched elements leave the record sequence     *)
(* equal to the 10-element fallback with none of the extracted records in  *)
(* it; 5 or more are kept, one record per element, and the fallback is not *)
(* used.                                                                   *)
C2_FewPublicationsGiveFallback ==
    (widget = "publications" /\ Parsed) =>
        LET elements == Selected(last.doc)
            n == Len(elements)
        IN  /\ n \in 1..(MinPublications - 1) =>
                  /\ records = FallbackPublications
                  /\ Len(records) = 10
                  /\ \A i \in 1..Len(records), k \in 1..n :
                        records[i] # publicationRecord(elements[k], k)
            /\ n >= MinPublications =>
                  /\ Len(records) = n
                  /\ records # FallbackPublications
                  /\ \A k \in 1..n : records[k] = publicationRecord(elements[k], k)

\* Exactly 4 elements were matched and the fallback is in place.
C2_Witness ==
    /\ widget = "publications" /\ Parsed
    /\ Len(Selected(last.doc)) = MinPublications - 1
    /\ records = FallbackPublications

(* C3: if the request rejects, the status is not ok, or reading or parsing *)
(* the body throws, then when the fetch operation finishes the record      *)
(* sequence is exactly the fallback, the operation has not rejected, and   *)
(* no record of the failed attempt remains.                                *)
C3_FailureGivesFallback ==
    /\ \A c \in Calls : pc[c] # "fetchRejected"
    /\ Failed =>
        /\ records = Fallback
        /\ widget = "grants" =>
              \A i \in 1..Len(records), k \in 1..Len(pushedGrants(last.doc)) :
                  records[i] # pushedGrants(last.doc)[k]

\* A grants parse threw after it had pushed records; the fallback is in place
\* and the operation's promise is fulfilled.
C3_Witness ==
    /\ widget = "grants" /\ last.how = "parseThrew"
    /\ pushedGrants(last.doc) # << >>
    /\ records = FallbackResearchGrants
    /\ \E c \in Calls : pc[c] = "fetched"

(* C4: after any completed parse or fallback load the ids of the record    *)
(* sequence are 1, 2, ..., n in sequence order, and extracted records are  *)
(* in the order of the matched elements they came from; for grants also    *)
(* when matched elements between kept ones are discarded.                  *)
C4_IdsContiguousInElementOrder ==
    (last.how # "none") =>
        /\ \A i \in 1..Len(records) : records[i].id = i
        /\ (Parsed /\ records # Fallback) =>
              LET elements == Selected(last.doc)
              IN  IF widget = "grants"
                  THEN IsSubsequence([i \in 1..Len(records) |-> records[i].details],
                                     [k \in 1..Len(elements) |-> trim(elements[k])])
                  ELSE /\ Len(records) = Len(elements)
                       /\ \A k \in 1..Len(elements) :
                            records[k] = publicationRecord(elements[k], k)

\* Three grant elements were matched, the first and the last kept and the
\* one between them discarded.
C4_Witness ==
    /\ widget = "grants" /\ Parsed
    /\ Len(Selected(last.doc)) = 3
    /\ Len(records) = 2
    /\ records[1].details = trim(Selected(last.doc)[1])
    /\ records[2].details = trim(Selected(last.doc)[3])
    /\ records[1].details # records[2].details

\* Two characters that are the same letter, whatever their case.
SameLetter(a, b) ==
    a = b \/ \E n \in 1..Len(UpperCase) : {a, b} = {UpperCase[n], LowerCase[n]}

\* word occurs in text, letter case ignored.
Has(text, word) ==
    \E i \in 1..(Len(text) - Len(word) + 1) :
        \A j \in 1..Len(word) : SameLetter(text[i + j - 1], word[j])

\* text contains one of the configured keywords, letter case ignored.
HasKeyword(text) == \E k \in 1..Len(researchKeywords) : Has(text, researchKeywords[k])

\* The first line of a text, white space at its ends left out.
FirstLine(text) ==
    LET breaks == {i \in 1..Len(text) : text[i] = "\n"}
    IN  trim(IF breaks = {} THEN text ELSE SubSeq(text, 1, Min(breaks) - 1))

\* A line cut to the limit and marked, or unchanged when within the limit.
CutTo(line, limit) ==
    IF Len(line) > limit THEN SubSeq(line, 1, limit) \o Ellipsis ELSE line

\* The text a publication's title is taken from: that of the title link when
\* one is found, else the element's first line.
TitleSource(element) ==
    LET links == <<element.found[".gsc_a_at"], element.found["a[href*=scholar]"],
                   element.found[".gsc_a_t a"]>>
        hits == {n \in 1..3 : links[n].present}
    IN  IF hits # {} THEN trim(links[Min(hits)].textContent)
        ELSE FirstLine(element.textContent)

(* C5: a first line longer than the limit (100 for grants, 150 for         *)
(* publications) gives a title of its first `limit` characters followed by *)
(* '...'; a first line at or under the limit is the title, unchanged and   *)
(* unmarked, for grants also when only white space before the line break   *)
(* takes the line over 100 characters.                                     *)
C5_TitleCutOnlyWhenLonger ==
    (Parsed /\ records # Fallback) =>
        IF widget = "grants"
        THEN \A i \in 1..Len(records) :
                records[i].title = CutTo(FirstLine(records[i].details), GrantTitleLimit)
        ELSE \A k \in 1..Len(records) :
                LET source == TitleSource(Selected(last.doc)[k])
                IN  source # << >> => records[k].title = CutTo(source, PubTitleLimit)

\* The years 2020 to 2025, as written in a text.
RecentYears ==
    {<<"2","0","2","0">>, <<"2","0","2","1">>, <<"2","0","2","2">>,
     <<"2","0","2","3">>, <<"2","0","2","4">>, <<"2","0","2","5">>}

(* C6: extractStatus is 'Completed' for any text containing 'completed' in *)
(* any letter case, also when it contains 'active', 'ongoing' or a year of *)
(* 2020-2025; otherwise 'Active' if it contains 'active', 'ongoing' or one *)
(* of those years; 'Unknown' in every other case.                          *)
C6_StatusCompletedFirst ==
    (widget = "grants" /\ Parsed /\ records # Fallback) =>
        \A i \in 1..Len(records) :
            LET text == records[i].details
                live == \/ Has(text, <<"a","c","t","i","v","e">>)
                        \/ Has(text, <<"o","n","g","o","i","n","g">>)
                        \/ \E year \in RecentYears : Has(text, year)
            IN  records[i].status =
                    IF Has(text, <<"c","o","m","p","l","e","t","e","d">>) THEN "Completed"
                    ELSE IF live THEN "Active" ELSE "Unknown"

\* A record was extracted from a text with 'Completed', a year and 'active'.
C6_Witness ==
    /\ widget = "grants" /\ Parsed /\ records # Fallback
    /\ \E i \in 1..Len(records) :
        /\ Has(records[i].details, <<"c","o","m","p","l","e","t","e","d">>)
        /\ Has(records[i].details, <<"2","0","2","4">>)
        /\ Has(records[i].details, <<"a","c","t","i","v","e">>)
        /\ records[i].status = "Completed"

\* The grant text of the example.
C7_Text ==
    <<"K","P","M",","," ","A","u","t","o","n","o","m","o","u","s"," ","A","n","o","m","a","l","y",
          " ","D","e","t","e","c","t","i","o","n"," ","i","n"," ","S","t","r","e","a","m","i","n","g"," ","D",
          "a","t","a",","," ","(","R","e","f",":"," ","R","A","C","E","R","/","1","/","2","0","1","9","/","I",
          "C","T","0","2","/","U","I","T","M","/","/","4",")",","," ","R","o","l","e",":"," ","T","e","a","m",
          " ","M","e","m","b","e","r",".">>

(* C7: from the text "KPM, Autonomous Anomaly Detection in Streaming Data, *)
(* (Ref: RACER/1/2019/ICT02/UITM//4), Role: Team Member." the extractor    *)
(* derives type 'RACER' and status 'Unknown', not the status 'Completed'   *)
(* of the fallback record with the same details.                           *)
C7_RacerTextIsUnknown ==
    /\ FallbackResearchGrants[1].details = C7_Text
    /\ FallbackResearchGrants[1].status = "Completed"
    /\ Has(C7_Text, <<"k","p","m">>)
    /\ (widget = "grants" /\ Parsed /\ records # Fallback) =>
          \A i \in 1..Len(records) :
              records[i].details = C7_Text =>
                  /\ records[i].type = "RACER"
                  /\ records[i].status = "Unknown"
                  /\ records[i].status # FallbackResearchGrants[1].status

\* A record was extracted from the text.
C7_Witness ==
    /\ widget = "grants" /\ Parsed /\ records # Fallback
    /\ \E i \in 1..Len(records) : records[i].details = C7_Text

\* The texts matched only by selectors after the first matching one.
LaterTexts(doc) ==
    {trim(doc[j][k]) : <<j, k>> \in {p \in (1..NumSelectors) \X (1..(MaxGrantElems + 1)) :
                                        p[2] <= Len(doc[p[1]])}}
        \ {trim(Selected(doc)[k]) : k \in 1..Len(Selected(doc))}

(* C8: the selectors are tried in their listed order and the first one     *)
(* matching any element supplies the element set alone: no record comes    *)
(* from an element matched only by a later selector, and for grants, when  *)
(* every element of the first matching selector is discarded, the result   *)
(* is the fallback even if a later selector matches elements that pass.    *)
C8_FirstMatchingSelectorOnly ==
    Parsed =>
        LET elements == Selected(last.doc)
        IN  IF widget = "grants"
            THEN /\ records # Fallback =>
                      \A i \in 1..Len(records) :
                          /\ \E k \in 1..Len(elements) : records[i].details = trim(elements[k])
                          /\ records[i].details \notin LaterTexts(last.doc)
                 /\ (\A k \in 1..Len(elements) :
                        ~(Len(trim(elements[k])) > MinTextLength /\ HasKeyword(trim(elements[k]))))
                      => records = Fallback
            ELSE \/ records = Fallback
                 \/ /\ Len(records) = Len(elements)
                    /\ \A k \in 1..Len(elements) :
                          records[k] = publicationRecord(elements[k], k)

\* The first matching selector's elements were all discarded, a later
\* selector matches a text that passes the filter, and the fallback is used.
C8_Witness ==
    /\ widget = "grants" /\ Parsed
    /\ Selected(last.doc) # << >>
    /\ \E t \in LaterTexts(last.doc) : Len(t) > MinTextLength /\ HasKeyword(t)
    /\ records = Fallback

(* C9: however the request ends (reject, status not ok, body read failure, *)
(* parse exception) and however the rendering goes (container present,     *)
(* container missing, rendering throws), an init() or refresh() call that  *)
(* settles is fulfilled, never rejected, and at that step either a record  *)
(* array that is not empty is given to the rendering or the 'unable to     *)
(* load' notice is shown.                                                  *)
C9_NoFailureIsACrash ==
    [][\A c \in Calls :
          (pc[c] \notin Settled /\ pc'[c] \in Settled) =>
              /\ pc'[c] = "resolved"
              /\ \/ textArea' = TextAreaError
                 \/ /\ Len(records) > 0
                    /\ textArea' = display(widget, textArea, hasTextArea, records)]_vars

\* A call was fulfilled with the notice shown although the page was parsed:
\* the rendering threw and init()'s catch clause handled it.
C9_Witness ==
    /\ last.how = "parsed"
    /\ textArea = TextAreaError
    /\ \E c \in Calls : pc[c] = "resolved"

(* C10: a matched grant element gives a record if and only if its trimmed  *)
(* text is longer than 10 characters and contains a configured keyword,    *)
(* letter case ignored; so every record of a result that is not the        *)
(* fallback has such details, and a text of exactly 10 characters gives    *)
(* none.                                                                   *)
C10_FilterIsLengthAndKeyword ==
    (widget = "grants" /\ Parsed) =>
        LET elements == Selected(last.doc)
            texts == [k \in 1..Len(elements) |-> trim(elements[k])]
            passing == SelectSeq(texts, LAMBDA t : Len(t) > 10 /\ HasKeyword(t))
        IN  /\ passing = << >> => records = Fallback
            /\ passing # << >> =>
                  /\ [i \in 1..Len(records) |-> records[i].details] = passing
                  /\ \A i \in 1..Len(records) :
                        Len(records[i].details) > 10 /\ HasKeyword(records[i].details)
                  /\ \A i \in 1..Len(records) : Len(records[i].details) # 10

\* Records were extracted from a page that also had a matched text of
\* exactly 10 characters containing a keyword.
C10_Witness ==
    /\ widget = "grants" /\ Parsed /\ records # Fallback
    /\ \E k \in 1..Len(Selected(last.doc)) :
        /\ Len(trim(Selected(last.doc)[k])) = 10
        /\ HasKeyword(trim(Selected(last.doc)[k]))

\* The categories in the order they are tried, each with its keyword.
TypeOrder ==
    << [keyword |-> <<"f","r","g","s">>, type |-> "FRGS"],
       [keyword |-> <<"r","a","c","e","r">>, type |-> "RACER"],
       [keyword |-> <<"l","e","s","t","a","r","i">>, type |-> "LESTARI"],
       [keyword |-> <<"k","p","m">>, type |-> "KPM"],
       [keyword |-> <<"i","n","t","e","r","n","a","t","i","o","n","a","l">>, type |-> "International"],
       [keyword |-> <<"n","a","t","i","o","n","a","l">>, type |-> "National"] >>

\* The places in TypeOrder whose keyword occurs in the text, letter case ignored.
TypeHits(text) == {n \in 1..Len(TypeOrder) : Has(text, TypeOrder[n].keyword)}

(* C11: the type of an extracted grant is the first category, in the order *)
(* FRGS, RACER, LESTARI, KPM, International, National, whose keyword       *)
(* occurs in the text in any letter case, and 'Research Grant' when none   *)
(* occurs; a text containing 'international' is never 'National'.          *)
C11_TypeIsFirstCategory ==
    (widget = "grants" /\ Parsed /\ records # Fallback) =>
        \A i \in 1..Len(records) :
            LET text == records[i].details
            IN  /\ records[i].type =
                      IF TypeHits(text) = {} THEN "Research Grant"
                      ELSE TypeOrder[Min(TypeHits(text))].type
                /\ Has(text, <<"i","n","t","e","r","n","a","t","i","o","n","a","l">>) => records[i].type # "National"

\* A record was extracted from a text with 'international' (and so with
\* 'national') and no earlier keyword, and it is 'International'.
C11_Witness ==
    /\ widget = "grants" /\ Parsed /\ records # Fallback
    /\ \E i \in 1..Len(records) :
        /\ TypeHits(records[i].details) = {5, 6}
        /\ records[i].type = "International"

(* C12: whatever init()/refresh() invocations were made, overlapping and   *)
(* completing in any order, the record array seen between steps is empty   *)
(* only before the first fetch operation has finished, and otherwise is    *)
(* the whole fallback or the whole extraction of one page: never a mixture *)
(* of the two, of two runs, or one run's records added to another's.       *)
C12_AllOrNothing ==
    /\ records = << >> => last = NoFetch
    /\ records # << >> =>
          \/ records = Fallback
          \/ \E doc \in SamplePages(widget) : records = parsed[widget][doc]
    /\ Parsed => records = parsed[widget][last.doc]

\* Two overlapping invocations have both finished their fetch operation, the
\* second is settled while the first has yet to render, and the array holds
\* extracted records.
C12_Witness ==
    /\ pc[1] = "fetched" /\ pc[2] = "resolved"
    /\ Parsed /\ records # Fallback

\* The fewest records a finished fetch operation leaves in the array.
AtLeast(w) == IF w = "grants" THEN 1 ELSE MinPublications

(* C13: the modal-open handler starts a fetch only when the record array   *)
(* is empty; once a fetch operation has finished the array is never empty  *)
(* again (grants: at least 1 record, publications: at least 5), so from    *)
(* then on opening the modal starts nothing and changes nothing; only      *)
(* refresh() starts another fetch.                                         *)
C13_ModalRefetchesOnlyWhenEmpty ==
    [][/\ last' # NoFetch => Len(records') >= AtLeast(widget)
       /\ (ShowModal /\ last # NoFetch) => UNCHANGED vars
       /\ (ShowModal /\ pc' # pc) => Len(records) = 0]_vars

\* A fetch operation has finished and the same invocation slot has a request
\* pending again, the other slot never used: refresh() started it.
C13_Witness ==
    /\ last # NoFetch
    /\ Len(records) >= AtLeast(widget)
    /\ pc[1] = "awaitFetch"
    /\ \A c \in Calls \ {1} : pc[c] = "idle"

\* The invocations whose fetch operation has started and not finished.
FetchPending == {c \in Calls : pc[c] \in {"awaitFetch", "awaitText"}}

(* C14: at every point between steps, isLoading is true if and only if at  *)
(* least one fetch operation of the widget has started and not finished:   *)
(* with overlapping invocations it stays true until the last of them       *)
(* finishes, and it is false once none is pending.                         *)
C14_LoadingIffFetchPending ==
    isLoading <=> (FetchPending # {})

(* C15: whenever displayPublications has rendered, the 'Showing cached     *)
(* publication data' notice is shown if and only if the record array is    *)
(* the fallback dataset, and the 'Publication data fetched from Google     *)
(* Scholar' notice if and only if the records were extracted from the      *)
(* fetched page; an extraction of 5 to 10 records is reported as fetched.  *)
C15_NoticeTellsTheSource ==
    (widget = "publications" /\ textArea.kind = "list") =>
        /\ textArea.note = "cached" <=> records = Fallback
        /\ textArea.note = "fetched from Google Scholar" <=> (Parsed /\ records # Fallback)

===========================================================================
